---- MODULE Spec2Model ----
(***************************************************************************)
(* A model of questionary.py: the question-file parser read_questions (a   *)
(* Python generator), and the quiz session Questionary with its event      *)
(* loop.                                                                   *)
(*                                                                         *)
(* Strings are sequences of symbols.  A symbol is a single character       *)
(* (" ", ":", "#", "/") or a word, written as a TLA+ string, that stands   *)
(* for a run of characters holding no whitespace, colon, '#', or '/'.      *)
(* A line of the file is given without its line terminator, which          *)
(* str.rstrip() removes together with the other trailing whitespace.       *)
(***************************************************************************)
EXTENDS Integers, Sequences, FiniteSets, TLC

\* Longest question file, in lines, that the parser specification reads.
MaxLines == 4

\* Optional[T]: None, or a one-element tuple holding the value.
None == <<>>
Some(v) == <<v>>

-----------------------------------------------------------------------------
(* String helpers of the Python runtime, as read_questions uses them.      *)

\* str.isspace() of one character.
IsSpace(c) == c = " "

\* str.rstrip(): the string without its trailing whitespace.
RECURSIVE rstrip(_)
rstrip(s) ==
    IF Len(s) = 0 THEN s
    ELSE IF IsSpace(s[Len(s)]) THEN rstrip(SubSeq(s, 1, Len(s) - 1))
    ELSE s

\* str.startswith(c) for a one-character prefix.
startswith(s, c) == Len(s) > 0 /\ s[1] = c

\* Index of the first colon of s, or 0 when it has none.
FirstColon(s) ==
    IF \E i \in 1..Len(s) : s[i] = ":"
    THEN CHOOSE i \in 1..Len(s) : s[i] = ":" /\ \A j \in 1..(i - 1) : s[j] # ":"
    ELSE 0

\* The leftmost match of the pattern \s*:\s* in s, as <<first, last>>: it
\* starts at the whitespace run that ends at the first colon and greedily
\* takes the whitespace that follows the colon.
SeparatorMatch(s) ==
    LET c == FirstColon(s)
        first == CHOOSE i \in 1..c :
                    /\ \A j \in i..(c - 1) : IsSpace(s[j])
                    /\ (i = 1 \/ ~IsSpace(s[i - 1]))
        last == CHOOSE k \in c..Len(s) :
                    /\ \A j \in (c + 1)..k : IsSpace(s[j])
                    /\ (k = Len(s) \/ ~IsSpace(s[k + 1]))
    IN  <<first, last>>

\* re.split(r'\s*:\s*', s, maxsplit): the pieces of s between the first
\* maxsplit separator matches; the last piece is the unsplit remainder.
RECURSIVE re_split(_, _)
re_split(s, maxsplit) ==
    IF maxsplit = 0 \/ FirstColon(s) = 0 THEN <<s>>
    ELSE LET m == SeparatorMatch(s)
         IN  <<SubSeq(s, 1, m[1] - 1)>>
                \o re_split(SubSeq(s, m[2] + 1, Len(s)), maxsplit - 1)

\* Index of the last "/" of p, or 0 when it has none.
LastSlash(p) ==
    IF \E i \in 1..Len(p) : p[i] = "/"
    THEN CHOOSE i \in 1..Len(p) : p[i] = "/" /\ \A j \in (i + 1)..Len(p) : p[j] # "/"
    ELSE 0

\* Strips trailing slashes of a directory name unless it is all slashes.
RECURSIVE StripSlashes(_)
StripSlashes(p) ==
    IF Len(p) = 0 \/ p[Len(p)] # "/" THEN p
    ELSE StripSlashes(SubSeq(p, 1, Len(p) - 1))

\* os.path.dirname (posixpath).
dirname(p) ==
    LET head == SubSeq(p, 1, LastSlash(p))
    IN  IF \E i \in 1..Len(head) : head[i] # "/" THEN StripSlashes(head) ELSE head

\* os.path.join(a, b) (posixpath): an absolute b replaces a.
path_join(a, b) ==
    IF startswith(b, "/") THEN b
    ELSE IF Len(a) = 0 \/ a[Len(a)] = "/" THEN a \o b
    ELSE a \o <<"/">> \o b

-----------------------------------------------------------------------------
(* The Question dataclass.                                                 *)

\* Question(): every field at its default.  answer = None stands for the
\* default int 0; a parsed answer is Some(text).  attrs holds the instance
\* attributes that setattr stored under names that are not fields.
Question ==
    [title |-> None, question |-> <<>>, options |-> <<>>, images |-> <<>>,
     answer |-> None, final_text |-> None, final_image |-> None, attrs |-> {}]

\* The keys of vars(Question), the dataclass's class namespace: the fields
\* that have a plain default, and the names the class statement and the
\* dataclass decorator add.  Fields with a default_factory (options, images)
\* are not class attributes.
VarsQuestion ==
    {"title", "question", "answer", "final_text", "final_image",
     "__module__", "__doc__", "__dict__", "__weakref__", "__annotations__",
     "__dataclass_fields__", "__dataclass_params__", "__init__", "__repr__",
     "__eq__", "__hash__", "__match_args__"}

\* Names of vars(Question) that an instance cannot be assigned a str under:
\* setattr raises TypeError / AttributeError.
UnsettableNames == {"__dict__", "__weakref__"}

\* setattr(quest, name, value) for a name in vars(Question).
setattr(quest, name, value) ==
    CASE name = "title"       -> [quest EXCEPT !.title = Some(value)]
      [] name = "question"    -> [quest EXCEPT !.question = value]
      [] name = "answer"      -> [quest EXCEPT !.answer = Some(value)]
      [] name = "final_text"  -> [quest EXCEPT !.final_text = Some(value)]
      [] name = "final_image" -> [quest EXCEPT !.final_image = Some(value)]
      [] OTHER -> [quest EXCEPT !.attrs =
                      {a \in @ : a[1] # name} \cup {<<name, value>>}]

-----------------------------------------------------------------------------
(* read_questions: a generator.  Its frame is the record                   *)
(*   [state, line_number, quest, err]                                      *)
(* state: "created" (body not entered), "loop" (about to fetch the next    *)
(* line of the file), "yield60" / "yield82" (suspended at the yield of     *)
(* that source line; the value yielded is quest), "finished" (returned),   *)
(* "raised" (left by an exception, err).                                   *)

VARIABLES
    file,         \* the lines of the question file (Spec: all of them;
                  \* SpecParse: the lines read so far)
    pos,          \* number of lines the generator has fetched from the file
    gen,          \* the generator's frame
    yielded,      \* history: the records the generator has yielded, in order
    pc,           \* where the program is: "init", "events", "quit", "crashed",
                  \* or "parse" when only the parser runs
    running,      \* Questionary.run's local flag
    _current,     \* Questionary._current
    _show_final,  \* Questionary._show_final
    nacts,        \* history: number of calls of Questionary.act so far
    batch,        \* Questionary.run: how many events of the list that
                  \* pygame.event.get() returned are still to be handled
    last,         \* history: what run() handled last: "none", "start" (the
                  \* first render), "resize", "quit", "escape", "space", "other"
    scene,        \* what a drawing operation is given from outside the
                  \* session: the window's size, the sizes of the image files
                  \* (None while nothing is being drawn)
    drawn         \* what the drawing operation handed to pygame: the result
                  \* of scale_image, or the calls render_question made

vars == <<file, pos, gen, yielded, pc, running, _current, _show_final, nacts, batch,
          last, scene, drawn>>

\* The name of the question file, and base_path computed from it.
filename == <<"d", "/", "q">>
base_path == dirname(filename)

\* The frame of a generator object that has not been started.
GenCreated == [state |-> "created", line_number |-> 0, quest |-> Question, err |-> None]

\* Entering the body: line_number = 1, quest = Question().
gen_start(g) == [g EXCEPT !.state = "loop", !.line_number = 1, !.quest = Question]

\* The exception a line raises: which raise statement, with the file name,
\* line number and line its message is formatted from.
FormatError(kind, g, line) ==
    Some([kind |-> kind, filename |-> filename, line_number |-> g.line_number,
          line |-> line])

\* raise: the frame is left with the exception.
raise(g, kind, line) == [g EXCEPT !.state = "raised", !.err = FormatError(kind, g, line)]

\* line_number += 1, the last statement of the loop body.
end_iteration(g) == [g EXCEPT !.line_number = @ + 1, !.state = "loop"]

\* blank_line that starts a new record only after a yield.
blank_line_keep(g) ==
    IF Len(g.quest.question) # 0 THEN [g EXCEPT !.state = "yield60"]
    ELSE end_iteration(g)

\* A line that is empty after rstrip: yield quest if it has question text;
\* after the yield (or at once), quest = Question().
blank_line(g) ==
    IF Len(g.quest.question) # 0 THEN [g EXCEPT !.state = "yield60"]
    ELSE end_iteration([g EXCEPT !.quest = Question])

\* Resuming after the yield of a blank line: quest = Question(), line_number += 1.
resume_yield60(g) == end_iteration([g EXCEPT !.quest = Question])

\* comment_line that skips the rest of the loop body (`continue`).
comment_line_continue(g) == [g EXCEPT !.state = "loop"]

\* comment_line that starts a new record.
comment_line_resets(g) == end_iteration([g EXCEPT !.quest = Question])

\* A line that starts with '#': pass.
comment_line(g) == end_iteration(g)

\* The if/elif chain that stores value under name.
store_field(g, name, value, line) ==
    IF name = <<"option">> THEN
        end_iteration([g EXCEPT !.quest.options = Append(@, value)])
    ELSE IF name = <<"image">> THEN
        end_iteration([g EXCEPT !.quest.images = Append(@, path_join(base_path, value))])
    ELSE IF name = <<"final_image">> THEN
        end_iteration([g EXCEPT !.quest.final_image = Some(path_join(base_path, value))])
    ELSE IF Len(name) = 1 /\ name[1] \in VarsQuestion THEN
        IF name[1] \in UnsettableNames THEN raise(g, "setattr", line)
        ELSE end_iteration([g EXCEPT !.quest = setattr(@, name[1], value)])
    ELSE raise(g, "field", line)

\* A content line: name, value = re.split(r'\s*:\s*', line, maxsplit=2);
\* unpacking anything but two pieces raises.
content_line(g, line) ==
    LET parts == re_split(line, 2)
    IN  IF Len(parts) # 2 THEN raise(g, "parse", line)
        ELSE store_field(g, parts[1], parts[2], line)

\* One pass of the body of `for line in input_file`, up to its end, a yield
\* or a raise.
read_questions_line(g, rawline) ==
    LET line == rstrip(rawline)
    IN  IF Len(line) = 0 THEN blank_line(g)
        ELSE IF startswith(line, "#") THEN comment_line(g)
        ELSE content_line(g, line)

\* After the loop: yield the record in progress if it has question text.
read_questions_eof(g) ==
    IF Len(g.quest.question) # 0 THEN [g EXCEPT !.state = "yield82"]
    ELSE [g EXCEPT !.state = "finished"]

\* The frame right after the generator is resumed by next().
gen_resume(g) ==
    CASE g.state = "created" -> gen_start(g)
      [] g.state = "yield60" -> resume_yield60(g)
      [] g.state = "yield82" -> [g EXCEPT !.state = "finished"]
      [] OTHER -> g

\* Runs the resumed generator over lines f[p+1], f[p+2], ... until it
\* yields, returns or raises.
RECURSIVE gen_run(_, _, _)
gen_run(f, p, g) ==
    IF g.state # "loop" THEN [g |-> g, pos |-> p]
    ELSE IF p = Len(f) THEN [g |-> read_questions_eof(g), pos |-> p]
    ELSE gen_run(f, p + 1, read_questions_line(g, f[p + 1]))

\* Whether the frame is suspended at a yield.
AtYield(g) == g.state \in {"yield60", "yield82"}

\* next(gen, None) around which an exception of the generator is swallowed.
gen_next_swallow(f, p, g) ==
    LET r == gen_run(f, p, gen_resume(g))
    IN  [g |-> r.g, pos |-> r.pos,
         item |-> IF AtYield(r.g) THEN Some(r.g.quest) ELSE None,
         raised |-> FALSE]

\* next(gen, None): item is Some(record) at a yield, None when the generator
\* is finished; raised when this call left it by an exception.
gen_next(f, p, g) ==
    LET r == gen_run(f, p, gen_resume(g))
    IN  [g |-> r.g, pos |-> r.pos,
         item |-> IF AtYield(r.g) THEN Some(r.g.quest) ELSE None,
         raised |-> r.g.state = "raised" /\ g.state # "raised"]

\* list(read_questions(f)): everything the generator yields over file f.
RECURSIVE gen_collect(_, _, _, _)
gen_collect(f, p, g, acc) ==
    LET r == gen_next(f, p, g)
    IN  IF r.item = None THEN [records |-> acc, g |-> r.g]
        ELSE gen_collect(f, r.pos, r.g, Append(acc, r.item[1]))

AllRecords(f) == gen_collect(f, 0, GenCreated, <<>>).records

-----------------------------------------------------------------------------
(* SpecParse: the parser alone, driven to completion as by                 *)
(* list(read_questions(filename)), over every file of at most MaxLines     *)
(* lines drawn from ParseLines.  The file is fetched a line at a time, as  *)
(* `for line in input_file` does.                                          *)

ParseLines ==
    { <<>>,                                   \* an empty line
      <<"#", "x", ":", "y">>,                 \* #x:y
      <<" ", "#", "x">>,                      \* " #x"
      <<"question", ":", " ", "x">>,          \* question: x
      <<"question", ":", "y", " ">>,          \* "question:y "
      <<"question", ":">>,                    \* question:
      <<"title", ":", "x">>,                  \* title:x
      <<"option", " ", ":", " ", "x">>,       \* option : x
      <<"option", ":", "y">>,                 \* option:y
      <<"image", ":", "x">>,                  \* image:x
      <<"final_image", ":", "/", "x">>,       \* final_image:/x
      <<"answer", ":", "2">>,                 \* answer:2
      <<"title", ":", "x", ":", "y">>,        \* title:x:y
      <<"foo", ":", "x">>,                    \* foo:x
      <<"__doc__", ":", "x">>,                \* __doc__:x
      <<"x">> }                               \* x

InitParse ==
    /\ file = <<>>
    /\ pos = 0
    /\ gen = GenCreated
    /\ yielded = <<>>
    /\ pc = "parse"
    /\ running = FALSE
    /\ _current = None
    /\ _show_final = FALSE
    /\ nacts = 0
    /\ batch = 0
    /\ last = "none"
    /\ scene = None
    /\ drawn = None

SessionIdle ==
    UNCHANGED <<pc, running, _current, _show_final, nacts, batch, last, scene, drawn>>

\* The consumer's record of what a step of the generator handed it.
Collect(g) == IF AtYield(g) THEN Append(yielded, g.quest) ELSE yielded

\* The first next(): the body is entered.
ParseStart ==
    /\ pc = "parse" /\ gen.state = "created"
    /\ gen' = gen_start(gen)
    /\ UNCHANGED <<file, pos, yielded>>
    /\ SessionIdle

\* The file has another line: one pass of the loop body over it.
ParseLine ==
    /\ pc = "parse" /\ gen.state = "loop" /\ Len(file) < MaxLines
    /\ \E line \in ParseLines :
        /\ file' = Append(file, line)
        /\ pos' = pos + 1
        /\ gen' = read_questions_line(gen, line)
        /\ yielded' = Collect(gen')
    /\ SessionIdle

\* The file has no further line.
ParseEOF ==
    /\ pc = "parse" /\ gen.state = "loop"
    /\ gen' = read_questions_eof(gen)
    /\ yielded' = Collect(gen')
    /\ UNCHANGED <<file, pos>>
    /\ SessionIdle

\* The consumer asks for the next record: the generator resumes after its yield.
ParseResume ==
    /\ pc = "parse" /\ AtYield(gen)
    /\ gen' = gen_resume(gen)
    /\ UNCHANGED <<file, pos, yielded>>
    /\ SessionIdle

NextParse == ParseStart \/ ParseLine \/ ParseEOF \/ ParseResume

SpecParse == InitParse /\ [][NextParse]_vars

-----------------------------------------------------------------------------
(* Spec: main().  Questionary(read_questions(filename)) wraps the          *)
(* generator, not yet started; run() renders once and then handles events. *)

\* Longest question file, in lines, of the session specification.
MaxSessionLines == 4

\* Most calls of act the session specification follows.
MaxActs == 6

\* Most events one call of pygame.event.get() returns.
MaxBatch == 2

SessionLines ==
    { <<>>,                                   \* an empty line
      <<"question", ":", " ", "x">>,          \* question: x
      <<"question", ":", "y", " ">>,          \* "question:y "
      <<"option", ":", "y">>,                 \* option:y
      <<"x">> }                               \* x

\* Sequences over S of length at most n.
SeqsUpTo(S, n) == UNION {[1..k -> S] : k \in 0..n}

\* The session as a value the methods transform: the Questionary's fields,
\* the generator it owns, and exc, whether an exception is propagating.
Session ==
    [current |-> _current, show_final |-> _show_final, gen |-> gen, pos |-> pos,
     yielded |-> yielded, exc |-> FALSE]

\* Questionary.current without the `is None` test: every access fetches.
Questionary_current_refetch(m) ==
    IF m.exc THEN m
    ELSE LET r == gen_next(file, m.pos, m.gen)
         IN  [m EXCEPT !.gen = r.g, !.pos = r.pos,
                       !.current = IF r.raised THEN @ ELSE r.item,
                       !.yielded = IF r.item # None THEN Append(@, r.item[1]) ELSE @,
                       !.exc = r.raised]

\* The property Questionary.current: fetch a record if none is held.  When
\* next() raises, the assignment to _current does not happen.
Questionary_current(m) ==
    IF m.exc \/ m.current # None THEN m
    ELSE LET r == gen_next(file, m.pos, m.gen)
         IN  [m EXCEPT !.gen = r.g, !.pos = r.pos,
                       !.current = IF r.raised THEN @ ELSE r.item,
                       !.yielded = IF r.item # None THEN Append(@, r.item[1]) ELSE @,
                       !.exc = r.raised]

\* Questionary.next without `self._current = None`.
Questionary_next_keep(m) == Questionary_current(m)

\* Questionary.next: drop the record held and fetch the following one.
Questionary_next(m) == Questionary_current([m EXCEPT !.current = None])

\* Questionary.act without the early return when there is no question.
Questionary_act_noguard(m) ==
    LET m1 == Questionary_current(m)
    IN  IF m1.exc THEN m1
        ELSE IF m1.show_final THEN Questionary_next([m1 EXCEPT !.show_final = FALSE])
        ELSE [m1 EXCEPT !.show_final = TRUE]

\* Questionary.act that also moves on when it reveals.
Questionary_act_pulls(m) ==
    LET m1 == Questionary_current(m)
    IN  IF m1.exc \/ m1.current = None THEN m1
        ELSE IF m1.show_final THEN Questionary_next([m1 EXCEPT !.show_final = FALSE])
        ELSE Questionary_next([m1 EXCEPT !.show_final = TRUE])

\* Questionary.act that leaves _show_final set when it moves on.
Questionary_act_noreset(m) ==
    LET m1 == Questionary_current(m)
    IN  IF m1.exc \/ m1.current = None THEN m1
        ELSE IF m1.show_final THEN Questionary_next(m1)
        ELSE [m1 EXCEPT !.show_final = TRUE]

\* Questionary.act.
Questionary_act(m) ==
    LET m1 == Questionary_current(m)
    IN  IF m1.exc \/ m1.current = None THEN m1
        ELSE IF m1.show_final THEN Questionary_next([m1 EXCEPT !.show_final = FALSE])
        ELSE [m1 EXCEPT !.show_final = TRUE]

\* Questionary.render that moves to the next question.
Questionary_render_advances(m) == Questionary_next(m)

\* Questionary.render: render_question reads self.current, then draws.
Questionary_render(m) == Questionary_current(m)

\* The state after a handler that left the session as m, the loop flag as r.
Becomes(m, r) ==
    /\ _current' = m.current
    /\ _show_final' = m.show_final
    /\ gen' = m.gen
    /\ pos' = m.pos
    /\ yielded' = m.yielded
    /\ running' = r
    /\ pc' = IF m.exc THEN "crashed" ELSE "events"
    /\ UNCHANGED <<file, scene, drawn>>

Init ==
    /\ file \in SeqsUpTo(SessionLines, MaxSessionLines)
    /\ pos = 0
    /\ gen = GenCreated
    /\ yielded = <<>>
    /\ pc = "init"
    /\ running = TRUE
    /\ _current = None
    /\ _show_final = FALSE
    /\ nacts = 0
    /\ batch = 0
    /\ last = "none"
    /\ scene = None
    /\ drawn = None

\* run(): running = True; self.render(); then the event loop.
RunStart ==
    /\ pc = "init"
    /\ Becomes(Questionary_render(Session), TRUE)
    /\ last' = "start"
    /\ UNCHANGED <<nacts, batch>>

\* `while running`, then pygame.event.get(): the events queued since the
\* last call, to be handled in order by the for loop.  (An empty list
\* changes nothing.)
GetEvents ==
    /\ pc = "events" /\ batch = 0 /\ running
    /\ \E n \in 1..MaxBatch : batch' = n
    /\ UNCHANGED <<file, pos, gen, yielded, pc, running, _current, _show_final, nacts,
                   last, scene, drawn>>

\* The for loop takes the next event of the list.
TakeEvent == pc = "events" /\ batch > 0 /\ batch' = batch - 1

\* An event of type VIDEORESIZE: render.
OnResize ==
    /\ TakeEvent /\ last' = "resize"
    /\ Becomes(Questionary_render(Session), running)
    /\ UNCHANGED nacts

\* An event of type QUIT: running = False.
OnQuit ==
    /\ TakeEvent /\ last' = "quit"
    /\ Becomes(Session, FALSE)
    /\ UNCHANGED nacts

\* KEYDOWN of K_ESCAPE: running = False, then render.
OnKeyEscape ==
    /\ TakeEvent /\ last' = "escape"
    /\ Becomes(Questionary_render(Session), FALSE)
    /\ UNCHANGED nacts

\* KEYDOWN of K_SPACE: act, then render.
OnKeySpace ==
    /\ TakeEvent /\ last' = "space" /\ nacts < MaxActs
    /\ Becomes(Questionary_render(Questionary_act(Session)), running)
    /\ nacts' = nacts + 1

\* KEYDOWN of any other key: render.
OnKeyOther ==
    /\ TakeEvent /\ last' = "other"
    /\ Becomes(Questionary_render(Session), running)
    /\ UNCHANGED nacts

\* The list of events is used up and running is False: pygame.quit().
ExitLoop ==
    /\ pc = "events" /\ batch = 0 /\ ~running
    /\ pc' = "quit"
    /\ UNCHANGED <<file, pos, gen, yielded, running, _current, _show_final, nacts, batch,
                   last, scene, drawn>>

Next ==
    \/ RunStart
    \/ GetEvents
    \/ OnResize
    \/ OnQuit
    \/ OnKeyEscape
    \/ OnKeySpace
    \/ OnKeyOther
    \/ ExitLoop

Spec == Init /\ [][Next]_vars

-----------------------------------------------------------------------------
(* The session's claims, checked under Spec.                               *)

\* A step in which act was called.
ActStep == nacts' = nacts + 1

\* The sequence is exhausted and no question is current.
Exhausted == _current = None /\ gen.state = "finished"

\* C1: when act is called while a question is current and revealed, the
\* session moves to the record that follows the current one in the file's
\* sequence of records, none skipped or repeated, with revealed false; when
\* no record follows, no question is current and revealed is false.
C1_ActAdvances ==
    [][(ActStep /\ _current # None /\ _show_final) =>
        LET R == AllRecords(file)
            k == Len(yielded)
        IN  /\ k \in 1..Len(R) /\ _current = Some(R[k])
            /\ _show_final' = FALSE
            /\ IF k < Len(R)
               THEN _current' = Some(R[k + 1]) /\ yielded' = Append(yielded, R[k + 1])
               ELSE /\ _current' = None /\ yielded' = yielded
                    /\ (Exhausted' \/ pc' = "crashed")]_vars

\* C1's case: two acts have moved the session from the first record to the
\* second, which differs from the first.
C1_Witness ==
    /\ pc = "events" /\ nacts = 2 /\ Len(yielded) = 2 /\ ~_show_final
    /\ _current = Some(yielded[2]) /\ yielded[1] # yielded[2]

\* C2: when act is called while a question is current and not revealed,
\* revealed becomes true and nothing else changes: the same record is
\* current and nothing further is fetched from the question sequence.
C2_ActReveals ==
    [][(ActStep /\ _current # None /\ ~_show_final) =>
        /\ _show_final' = TRUE
        /\ UNCHANGED <<_current, gen, pos, yielded, file, pc, running>>]_vars

\* C2's case: the first act has revealed the first record of a file that
\* holds another record after it.
C2_Witness ==
    /\ pc = "events" /\ nacts = 1 /\ _show_final /\ Len(yielded) = 1
    /\ _current = Some(yielded[1]) /\ Len(AllRecords(file)) = 2

\* C3: Exhausted is absorbing: there revealed is false, every step leaves
\* the session exhausted with revealed false, and act changes nothing.
C3_ExhaustedAbsorbing ==
    [][Exhausted =>
        /\ ~_show_final
        /\ Exhausted' /\ ~_show_final'
        /\ (ActStep => UNCHANGED <<_current, _show_final, gen, pos, yielded,
                                   file, pc, running>>)]_vars

\* C3's case: a session over two records was exhausted by four acts and
\* act has been called twice more since.
C3_Witness ==
    /\ Exhausted /\ pc = "events" /\ Len(yielded) = 2 /\ nacts = 6 /\ ~_show_final

\* C4: with R the file's N records, once run() has drawn the first frame:
\* after 2k acts (k < N) record k+1 is current and not revealed, after 2k+1
\* acts it is current and revealed, and from 2N acts on, not before, no
\* question is current.
C4_RevealAdvanceAlternate ==
    pc \in {"events", "quit"} =>
        LET R == AllRecords(file)
            k == nacts \div 2
        IN  IF nacts < 2 * Len(R)
            THEN _current = Some(R[k + 1]) /\ _show_final = (nacts % 2 = 1)
            ELSE _current = None /\ ~_show_final

\* C4's case: a file of two records, exhausted by exactly the fourth act.
C4_Witness ==
    /\ pc = "events" /\ nacts = 4 /\ Len(AllRecords(file)) = 2
    /\ Exhausted /\ Len(yielded) = 2

-----------------------------------------------------------------------------
(* The file format in the words of its description, for the parser's       *)
(* claims: blank lines, comments, `name: value` lines, records.            *)

SevenNames ==
    {"title", "question", "option", "image", "final_image", "final_text", "answer"}

\* A line of whitespace only.
IsBlank(l) == \A i \in 1..Len(l) : IsSpace(l[i])

\* A line whose first character is '#'.
IsHashLine(l) == Len(l) > 0 /\ l[1] = "#"

\* A line whose first non-whitespace character is '#'.
IsIndentedOrHashLine(l) ==
    \E i \in 1..Len(l) : l[i] = "#" /\ \A j \in 1..(i - 1) : IsSpace(l[j])

\* A line that holds a colon.
HasSeparator(l) == FirstColon(l) # 0

\* The text before the first separator, and the whole text after it.
NameOf(l) == SubSeq(rstrip(l), 1, SeparatorMatch(rstrip(l))[1] - 1)
ValueOf(l) == SubSeq(rstrip(l), SeparatorMatch(rstrip(l))[2] + 1, Len(rstrip(l)))

\* A content line: neither blank nor a comment.
IsContent(l) == ~IsBlank(l) /\ ~IsIndentedOrHashLine(l)

\* A content line `name: value` whose name is one of the seven.
IsFieldLine(l) ==
    /\ IsContent(l) /\ HasSeparator(l)
    /\ Len(NameOf(l)) = 1 /\ NameOf(l)[1] \in SevenNames

\* The values, in order, of the lines of block that carry field name n.
ValuesOf(block, n) ==
    LET ls == SelectSeq(block, LAMBDA l : IsFieldLine(l) /\ NameOf(l) = <<n>>)
    IN  [i \in 1..Len(ls) |-> ValueOf(ls[i])]

LastOf(vs) == IF Len(vs) = 0 THEN None ELSE Some(vs[Len(vs)])

\* The record a block of field lines describes.
RecordOf(block) ==
    [title |-> LastOf(ValuesOf(block, "title")),
     question |-> IF Len(ValuesOf(block, "question")) = 0 THEN <<>>
                  ELSE LastOf(ValuesOf(block, "question"))[1],
     options |-> ValuesOf(block, "option"),
     images |-> [i \in 1..Len(ValuesOf(block, "image")) |->
                    path_join(base_path, ValuesOf(block, "image")[i])],
     answer |-> LastOf(ValuesOf(block, "answer")),
     final_text |-> LastOf(ValuesOf(block, "final_text")),
     final_image |-> LastOf([i \in 1..Len(ValuesOf(block, "final_image")) |->
                    path_join(base_path, ValuesOf(block, "final_image")[i])]),
     attrs |-> {}]

\* Where the blocks of f start: a non-blank line that is first or follows a
\* blank line.  The block runs to the line before the next blank line.
BlockStarts(f) == {i \in 1..Len(f) : ~IsBlank(f[i]) /\ (i = 1 \/ IsBlank(f[i - 1]))}
BlockEnd(f, s) == CHOOSE e \in s..Len(f) :
                    /\ \A j \in s..e : ~IsBlank(f[j])
                    /\ (e = Len(f) \/ IsBlank(f[e + 1]))
NthStart(f, n) == CHOOSE s \in BlockStarts(f) :
                    Cardinality({t \in BlockStarts(f) : t <= s}) = n
Block(f, n) == SubSeq(f, NthStart(f, n), BlockEnd(f, NthStart(f, n)))

\* The records of f, block by block, in file order.
ExpectedRecords(f) ==
    [n \in 1..Cardinality(BlockStarts(f)) |-> RecordOf(Block(f, n))]

\* A file of well-formed records: blank lines and field lines only, every
\* block with a non-empty question.
WellFormedFile(f) ==
    /\ \A i \in 1..Len(f) : IsBlank(f[i]) \/ IsFieldLine(f[i])
    /\ \A n \in 1..Cardinality(BlockStarts(f)) : Len(RecordOf(Block(f, n)).question) > 0

\* The generator is over: it returned or raised.
ParseOver == gen.state \in {"finished", "raised"}

\* The last line fetched.
LastLine == file[pos]

-----------------------------------------------------------------------------
(* The parser's claims, checked under SpecParse.                           *)

\* C5: read_questions on a file of N well-formed records (field lines, each
\* block with a non-empty question), separated by one or more blank lines,
\* with or without a trailing blank line, returns without error and has
\* yielded exactly the N records of the file, the i-th carrying the fields
\* of the i-th block.
C5_WellFormedYieldsAll ==
    (ParseOver /\ WellFormedFile(file)) =>
        (gen.state = "finished" /\ yielded = ExpectedRecords(file))

\* C5, for the files none of whose values holds a further colon.
C5_WithoutFurtherColons ==
    (/\ ParseOver /\ WellFormedFile(file)
     /\ \A i \in 1..Len(file) : IsBlank(file[i]) \/ ~HasSeparator(ValueOf(file[i]))) =>
        (gen.state = "finished" /\ yielded = ExpectedRecords(file))

\* The lines the record at a yield was accumulated from: those after the
\* last blank line before the point of the yield.
YieldingBlock ==
    LET e == IF gen.state = "yield60" THEN pos - 1 ELSE pos
        blanks == {j \in 1..e : IsBlank(file[j])}
        s == IF blanks = {} THEN 1
             ELSE 1 + CHOOSE j \in blanks : \A b \in blanks : b <= j
    IN  SubSeq(file, s, e)

\* The record read_questions builds from a file that holds only block.
ParsedAlone(block) == gen_run(block, 0, gen_start(GenCreated)).g.quest

\* C6: every record yielded has a non-empty question, and every record
\* yielded is the record of its own block of lines alone: no field of an
\* earlier block, yielded or dropped, is in it.
C6_NoQuestionNoRecord ==
    /\ \A i \in 1..Len(yielded) : Len(yielded[i].question) > 0
    /\ AtYield(gen) =>
        /\ yielded[Len(yielded)] = gen.quest
        /\ gen.quest = ParsedAlone(YieldingBlock)

\* C6's case: a block with a title and no question was dropped at a blank
\* line, and the record yielded after it has no title.
C6_Witness ==
    /\ AtYield(gen) /\ Len(yielded) = 1 /\ Len(file) >= 3
    /\ IsFieldLine(file[1]) /\ NameOf(file[1]) = <<"title">> /\ IsBlank(file[2])
    /\ gen.quest.title = None

\* Whether record q holds value v as its (latest) field n.
FieldHolds(q, n, v) ==
    CASE n = "title"       -> q.title = Some(v)
      [] n = "question"    -> q.question = v
      [] n = "option"      -> Len(q.options) > 0 /\ q.options[Len(q.options)] = v
      [] n = "image"       -> Len(q.images) > 0
                              /\ q.images[Len(q.images)] = path_join(base_path, v)
      [] n = "final_image" -> q.final_image = Some(path_join(base_path, v))
      [] n = "final_text"  -> q.final_text = Some(v)
      [] n = "answer"      -> q.answer = Some(v)
      [] OTHER -> FALSE

\* The generator has just run the loop body over a content line.
AfterContentLine == pos > 0 /\ gen.state \in {"loop", "raised"} /\ IsContent(LastLine)

\* C7: a line `name: value` with one of the seven names whose value holds
\* further colons raises no error, and the field receives the whole text
\* after the first separator.
C7_ColonsInValue ==
    (AfterContentLine /\ IsFieldLine(LastLine) /\ HasSeparator(ValueOf(LastLine))) =>
        /\ gen.state = "loop"
        /\ FieldHolds(gen.quest, NameOf(LastLine)[1], ValueOf(LastLine))

\* C8: a line `name: value` is accepted exactly when name is one of the
\* seven field names: any other name raises a format error and nothing of the
\* line is stored on the record.
C8_OnlySevenNames ==
    /\ (AfterContentLine /\ HasSeparator(LastLine) /\ ~IsFieldLine(LastLine)) =>
            /\ gen.state = "raised"
            /\ gen.err[1].kind \in {"field", "parse"}
    /\ (AfterContentLine /\ IsFieldLine(LastLine) /\ ~HasSeparator(ValueOf(LastLine))) =>
            /\ gen.state = "loop"
            /\ FieldHolds(gen.quest, NameOf(LastLine)[1], ValueOf(LastLine))
    /\ gen.quest.attrs = {}

\* C9: the line number of a format error is the 1-based position in the
\* file of the line that raised it, whatever lines precede it.
C9_ErrorLineNumber ==
    (gen.state = "raised" /\ gen.err[1].kind \in {"parse", "field"}) =>
        /\ gen.err[1].line_number = pos
        /\ gen.err[1].line = rstrip(file[pos])
        /\ gen.err[1].filename = filename

\* C9's case: the error is on line 4, after a yielded record, the blank line
\* that ended it, and a comment line.
C9_Witness ==
    /\ gen.state = "raised" /\ pos = 4 /\ Len(yielded) = 1
    /\ IsBlank(file[2]) /\ IsHashLine(file[3])
    /\ gen.err[1].line_number = 4

\* What read_questions does over file f: the records yielded and how it ended.
Outcome(f) ==
    LET r == gen_collect(f, 0, GenCreated, <<>>)
    IN  [records |-> r.records, state |-> r.g.state]

\* C10 as claimed: every line whose first non-whitespace character is '#'
\* raises no error, and the records yielded, and the way the parser ends,
\* are those of the file without these lines.
C10_CommentsSkipped ==
    ParseOver =>
        /\ ~(gen.state = "raised" /\ IsIndentedOrHashLine(LastLine))
        /\ [records |-> yielded, state |-> gen.state]
              = Outcome(SelectSeq(file, LAMBDA l : ~IsIndentedOrHashLine(l)))

\* C10 as amended: every line whose first character is '#' raises no error,
\* and the records yielded, and the way the parser ends, are those of the
\* file without these lines.
C10_HashLinesSkipped ==
    ParseOver =>
        /\ ~(gen.state = "raised" /\ IsHashLine(LastLine))
        /\ [records |-> yielded, state |-> gen.state]
              = Outcome(SelectSeq(file, LAMBDA l : ~IsHashLine(l)))

\* C10's case: a '#' line, with a colon in it, between the question line and
\* an option line of the one record yielded.
C10_Witness ==
    /\ gen.state = "finished" /\ Len(file) = 3 /\ Len(yielded) = 1
    /\ IsHashLine(file[2]) /\ HasSeparator(file[2])
    /\ IsFieldLine(file[1]) /\ NameOf(file[1]) = <<"question">>
    /\ IsFieldLine(file[3]) /\ NameOf(file[3]) = <<"option">>
    /\ Len(yielded[1].options) = 1

-----------------------------------------------------------------------------
(* Further claims on the session, checked under Spec.                      *)

\* The file holds a line that makes read_questions raise.
FileHasError == Outcome(file).state = "raised"

\* C11 as claimed: over a file with a format error, no question is ever
\* current and no act is ever processed: the run is aborted at startup.
C11_AbortsAtStartup ==
    FileHasError => (_current = None /\ nacts = 0 /\ yielded = <<>>
                     /\ pc \in {"init", "crashed"})

\* C11 as amended: a format error aborts the run on the step in which the
\* parser reaches the offending line, and nothing is handled after it.  By
\* then exactly the records before the error have been presented, each
\* revealed and advanced past; an error met while the first record is
\* fetched aborts the first render, before any question and any act.
C11_AbortsWhenReached ==
    /\ [](/\ (gen.state = "raised") = (pc = "crashed")
          /\ yielded = SubSeq(AllRecords(file), 1, Len(yielded))
          /\ pc = "crashed" =>
                /\ _current = None /\ ~_show_final
                /\ yielded = AllRecords(file)
                /\ nacts = 2 * Len(yielded)
                /\ last = IF Len(yielded) = 0 THEN "start" ELSE "space")
    /\ [][pc # "crashed"]_vars

\* C11's case: the first record was presented and revealed, and the act that
\* moved on from it met the format error in the lines after it.
C11_Witness ==
    /\ pc = "crashed" /\ Len(yielded) = 1 /\ nacts = 2 /\ gen.state = "raised"
    /\ gen.err[1].line_number > 1

Min(a, b) == IF a < b THEN a ELSE b

\* C14: the records fetched from the generator are as many as the questions
\* that have been current (one from the first render on, one more per
\* completed advance, at most all of them); they are the first records of
\* the file in order; the generator stays suspended at the yield of the
\* current question; and a step only ever appends one record and moves the
\* read position forward.
C14_LazyAtMostOnce ==
    /\ [](/\ Len(yielded) = IF pc = "init" THEN 0
                            ELSE Min(Len(AllRecords(file)), nacts \div 2 + 1)
          /\ yielded = SubSeq(AllRecords(file), 1, Len(yielded))
          /\ _current # None =>
                /\ Len(yielded) > 0 /\ _current = Some(yielded[Len(yielded)])
                /\ AtYield(gen) /\ gen.quest = _current[1])
    /\ [][/\ pos' >= pos
          /\ \/ yielded' = yielded
             \/ /\ Len(yielded') = Len(yielded) + 1
                /\ SubSeq(yielded', 1, Len(yielded)) = yielded
                /\ _current' = Some(yielded'[Len(yielded')])]_vars

\* C14's case: the first of two records was fetched, revealed and drawn
\* again on another key, and the lines of the second are still unread.
C14_Witness ==
    /\ pc = "events" /\ nacts = 1 /\ Len(yielded) = 1 /\ last = "other"
    /\ _current = Some(yielded[1]) /\ _show_final /\ gen.state = "yield60"
    /\ pos < Len(file) /\ Len(AllRecords(file)) = 2

\* What an act can change.
SessionState == <<_current, _show_final, gen, pos, yielded>>

\* C15: once a quit event or the ESC key-down was handled (running is
\* False), no later event is applied: the session does not change.
C15_QuitImmediate == [][~running => UNCHANGED SessionState]_vars

\* C16 as claimed: wherever act can be called, the file's read position is
\* the same after act as before it.
C16_ActReadsNothing ==
    (pc = "events" /\ batch > 0) => Questionary_act(Session).pos = pos

\* C16 as amended: act reads the file only when it moves on from a revealed
\* question, and then forward, until the parser yields, returns or raises;
\* an act that reveals and an act with no question current read nothing and
\* do not resume the parser.
C16_ActReadsOnlyToAdvance ==
    (pc = "events" /\ batch > 0) =>
        LET m == Questionary_act(Session)
        IN  IF _current # None /\ _show_final
            THEN /\ m.pos >= pos
                 /\ m.gen.state \in {"yield60", "yield82", "finished", "raised"}
                 /\ m.gen.state = "yield60" => (m.pos > pos /\ IsBlank(file[m.pos]))
            ELSE m.pos = pos /\ m.gen = gen

\* C16's case: act can be called on a revealed question with lines of the
\* file still unread, which it will read.
C16_Witness ==
    /\ pc = "events" /\ batch > 0 /\ _current # None /\ _show_final
    /\ pos < Len(file) /\ Questionary_act(Session).pos > pos

\* C19: revealed is true only while a question is current, and never before
\* the first question was fetched.
C19_RevealedOnlyWithQuestion ==
    _show_final => (_current # None /\ pc # "init" /\ Len(yielded) > 0)

\* C19's case: the only question was revealed and then left, and no
\* question is current.
C19_Witness ==
    /\ pc = "events" /\ nacts = 2 /\ last = "space" /\ Exhausted
    /\ Len(yielded) = 1 /\ ~_show_final

\* C20: a step that is no act (the first render, a resize, a key other than
\* the advance key, a quit) leaves revealed unchanged; the first render
\* fetches at most the first record; every later one leaves the current
\* question, the generator, its read position and the records fetched
\* unchanged.
C20_RenderChangesNothing ==
    [][~ActStep =>
        /\ _show_final' = _show_final
        /\ IF pc = "init"
           THEN /\ yielded' = SubSeq(AllRecords(file), 1, Min(1, Len(AllRecords(file))))
                /\ _current' = IF yielded' = <<>> THEN None ELSE Some(yielded'[1])
           ELSE UNCHANGED <<_current, gen, pos, yielded>>]_vars

\* C20's case: a resize was rendered after the reveal of the first question
\* of two, which is still current and revealed.
C20_Witness ==
    /\ pc = "events" /\ last = "resize" /\ nacts = 1 /\ _show_final
    /\ _current = Some(yielded[1]) /\ Len(yielded) = 1 /\ Len(AllRecords(file)) = 2

-----------------------------------------------------------------------------
(* Questionary.scale_image.  Lengths are integers counted in a unit of     *)
(* 1/unit pixel, so that the fractional viewports render_question passes   *)
(* (0.9 of the width, a k-th of 0.8 of the width, ...) are exact; a caller *)
(* with a size in whole pixels uses unit = 1.  The smoothscale call acts   *)
(* on pygame's surface only: what the method returns to its caller is the  *)
(* size it asked for and the offset.                                       *)

MaxDim == 6

\* Image and viewport dimensions tried: the small ones, and two larger ones
\* for which the float quotient falls below an exact integer quotient.
Dims == (1..MaxDim) \cup {29, 30}

RECURSIVE Gcd(_, _)
Gcd(a, b) == IF b = 0 THEN a ELSE Gcd(b, a % b)

RECURSIVE IsPow2(_)
IsPow2(n) == n = 1 \/ (n % 2 = 0 /\ IsPow2(n \div 2))

\* photo_aspect_ratio = image_w / image_h is computed without rounding
\* exactly when the fraction is a binary one.
RatioExact(image_w, image_h) == IsPow2(image_h \div Gcd(image_w, image_h))

\* int(x) of a float x whose real value is n / d (n >= 0, d > 0): the values
\* the float computation can give.  With exact operands it is the floor.
\* With a rounded operand the float can fall just below a quotient that is
\* an integer in exact arithmetic, and int() then gives one less: image
\* 5 x 29 in 5 x 30 gives int(5 / (5 / 29)) = 28.
int_of(n, d, exact) ==
    IF n % d = 0 /\ n > 0 /\ ~exact THEN {n \div d, n \div d - 1} ELSE {n \div d}

\* A centring that takes the whole free space instead of half of it.
centre_whole(space, used, unit, center_image) ==
    IF center_image THEN space - used ELSE 0

\* (screen - new) // 2 if center_image else 0
centre(space, used, unit, center_image) ==
    IF center_image THEN unit * ((space - used) \div (2 * unit)) ELSE 0

\* scale_image(image, size, center_image): the possible results
\* [size |-> (new_image_w, new_image_h), offset |-> (image_x, image_y)].
scale_image(image, size, unit, center_image) ==
    LET screen_w == size[1]
        screen_h == size[2]
        image_w == image[1]
        image_h == image[2]
        exact == unit = 1 /\ RatioExact(image_w, image_h)
    IN  IF screen_w * image_h < image_w * screen_h             \* width is binding
        THEN { [size |-> <<screen_w, unit * new_image_h>>,
                offset |-> <<0, centre(screen_h, unit * new_image_h, unit, center_image)>>]
               : new_image_h \in int_of(screen_w * image_h, unit * image_w, exact) }
        ELSE IF screen_w * image_h > image_w * screen_h        \* height is binding
        THEN { [size |-> <<unit * new_image_w, screen_h>>,
                offset |-> <<centre(screen_w, unit * new_image_w, unit, center_image), 0>>]
               : new_image_w \in int_of(screen_h * image_w, unit * image_h, exact) }
        ELSE { [size |-> <<screen_w, screen_h>>, offset |-> <<0, 0>>] }

\* scale_image alone: an image and a viewport with positive integer
\* dimensions, centring on or off.
InitScale ==
    /\ file = <<>>
    /\ pos = 0
    /\ gen = GenCreated
    /\ yielded = <<>>
    /\ pc = "scale"
    /\ running = FALSE
    /\ _current = None
    /\ _show_final = FALSE
    /\ nacts = 0
    /\ batch = 0
    /\ last = "none"
    /\ scene \in [image : Dims \X Dims, size : Dims \X Dims, center_image : BOOLEAN]
    /\ drawn = None

ScaleImage ==
    /\ pc = "scale" /\ drawn = None
    /\ \E r \in scale_image(scene.image, scene.size, 1, scene.center_image) :
           drawn' = Some(r)
    /\ UNCHANGED <<file, pos, gen, yielded, pc, running, _current, _show_final, nacts,
                   batch, last, scene>>

NextScale == ScaleImage

SpecScale == InitScale /\ [][NextScale]_vars

Abs(n) == IF n < 0 THEN -n ELSE n

\* C12: for every image size and viewport size with positive integer
\* dimensions, the size and offset scale_image returns place the image
\* inside the viewport (offsets not negative, right and bottom edges not
\* beyond the viewport), the image spans the whole width or the whole
\* height, and with centring on the two margins on each axis differ by at
\* most 1 (they are both 0 on the binding axis).
C12_FitsTouchesCentred ==
    (pc = "scale" /\ drawn # None) =>
        LET w == drawn[1].size[1]
            h == drawn[1].size[2]
            x == drawn[1].offset[1]
            y == drawn[1].offset[2]
            W == scene.size[1]
            H == scene.size[2]
        IN  /\ w >= 0 /\ h >= 0
            /\ x >= 0 /\ y >= 0 /\ x + w <= W /\ y + h <= H
            /\ w = W \/ h = H
            /\ scene.center_image =>
                   /\ Abs(x - (W - w - x)) <= 1
                   /\ Abs(y - (H - h - y)) <= 1

\* Image 2 x 1 in a viewport 4 x 5, centred: width binds, the image becomes
\* 4 x 2 and the margins above and below are 1 and 2.
C12_Witness ==
    /\ pc = "scale"
    /\ scene = [image |-> <<2, 1>>, size |-> <<4, 5>>, center_image |-> TRUE]
    /\ drawn = Some([size |-> <<4, 2>>, offset |-> <<0, 1>>])

-----------------------------------------------------------------------------
(* Questionary.render_question.  What it hands to pygame is recorded as    *)
(*   [exc, texts, options, images]                                         *)
(* texts: the message, title and body lines; options: the option lines;    *)
(* images: the images blitted; each with the position passed to pygame,    *)
(* counted in 1/unit pixel.  exc: an exception left the method.            *)

MaxOptions == 2
MaxImages == 2

Digits == <<"0", "1", "2", "3", "4", "5", "6", "7", "8", "9">>

IsDigit(c) == \E d \in 1..Len(Digits) : Digits[d] = c

DigitValue(c) == (CHOOSE d \in 1..Len(Digits) : Digits[d] = c) - 1

RECURSIVE digits_value(_)
digits_value(s) ==
    IF s = <<>> THEN 0
    ELSE 10 * digits_value(SubSeq(s, 1, Len(s) - 1)) + DigitValue(s[Len(s)])

\* int(quest.answer): the dataclass default is the int 0; a value the parser
\* stored is a str, which int() converts when it is an optional minus sign
\* and decimal digits, and otherwise rejects with ValueError.
int(answer) ==
    IF answer = None THEN [ok |-> TRUE, value |-> 0]
    ELSE LET v == answer[1]
             negative == Len(v) > 0 /\ v[1] = "-"
             body == IF negative THEN Tail(v) ELSE v
         IN  IF Len(body) > 0 /\ \A k \in 1..Len(body) : IsDigit(body[k])
             THEN [ok |-> TRUE,
                   value |-> IF negative THEN 0 - digits_value(body) ELSE digits_value(body)]
             ELSE [ok |-> FALSE, value |-> 0]

\* str(n), to write a number into a file.
RECURSIVE decimal(_)
decimal(n) ==
    IF n < 0 THEN <<"-">> \o decimal(0 - n)
    ELSE IF n < 10 THEN <<Digits[n + 1]>>
    ELSE decimal(n \div 10) \o <<Digits[(n % 10) + 1]>>

\* string.ascii_letters
ascii_letters ==
    <<"a", "b", "c", "d", "e", "f", "g", "h", "i", "j", "k", "l", "m",
      "n", "o", "p", "q", "r", "s", "t", "u", "v", "w", "x", "y", "z",
      "A", "B", "C", "D", "E", "F", "G", "H", "I", "J", "K", "L", "M",
      "N", "O", "P", "Q", "R", "S", "T", "U", "V", "W", "X", "Y", "Z">>

\* option.replace('\\n', '\n'): a backslash followed by n becomes a newline.
RECURSIVE replace_newline(_)
replace_newline(s) ==
    IF Len(s) < 2 THEN s
    ELSE IF s[1] = "\\" /\ s[2] = "n"
         THEN <<"\n">> \o replace_newline(SubSeq(s, 3, Len(s)))
         ELSE <<s[1]>> \o replace_newline(Tail(s))

\* Truth value of an Optional[str]: None and '' are false.
truthy(opt) == opt # None /\ opt[1] # <<>>

\* A colour rule that compares the 0-based index with the answer.
option_color_zero_based(show_final, index, answer) ==
    IF show_final /\ index = answer THEN <<225, 20, 30>> ELSE <<0, 0, 0>>

\* color = (225, 20, 30) if self._show_final and (index+1 == int(quest.answer))
\*         else (0, 0, 0);  answer is the value of int(quest.answer).
option_color(show_final, index, answer) ==
    IF show_final /\ index + 1 = answer THEN <<225, 20, 30>> ELSE <<0, 0, 0>>

\* The loop over quest.options.  int(quest.answer) is evaluated only when
\* _show_final is true (`and` short-circuits); when it raises, it does so in
\* the first iteration, before anything is drawn.  ascii_letters[index]
\* raises IndexError at the first index beyond the letters.
render_options(quest, show_final, size) ==
    LET a == int(quest.answer)
        n == Len(quest.options)
        raises_at == IF show_final /\ ~a.ok THEN 0 ELSE Len(ascii_letters)
        count == IF n < raises_at THEN n ELSE raises_at
    IN  [exc |-> n > raises_at,
         lines |-> [k \in 1..count |->
                      [text |-> <<ascii_letters[k], ".", " ">>
                                    \o replace_newline(quest.options[k]),
                       color |-> option_color(show_final, k - 1, a.value),
                       at |-> <<7 * size[1], 30 * size[2] + 100 * (k - 1) * 40>>,
                       unit |-> 100]]]

\* The title line, if the title is true, and the body line.
render_texts(quest, show_final, size) ==
    (IF truthy(quest.title)
     THEN << [text |-> quest.title[1], color |-> <<0, 0, 0>>,
              at |-> <<size[1], size[2]>>, unit |-> 100] >>
     ELSE <<>>)
    \o << [text |-> IF show_final
                    THEN (IF truthy(quest.final_text) THEN quest.final_text[1]
                          ELSE quest.question)
                    ELSE quest.question,
           color |-> <<100, 0, 0>>,
           at |-> <<5 * size[1], 10 * size[2]>>, unit |-> 100] >>

\* A choice that draws the final image whenever the record has one.
draws_final_always(quest, show_final) == truthy(quest.final_image)

\* if self._show_final and quest.final_image
draws_final(quest, show_final) == show_final /\ truthy(quest.final_image)

\* The files render_question loads with pygame.image.load.
FilesLoaded(quest, show_final) ==
    IF draws_final(quest, show_final) THEN {quest.final_image[1]}
    ELSE {quest.images[k] : k \in 1..Len(quest.images)}

\* Slots that take the indent off the width once only.
image_slots_one_indent(size, n, unit) ==
    LET image_indent == (unit * size[1]) \div 10
    IN  [image_indent |-> image_indent,
         image_width |-> (unit * size[1] - image_indent) \div n,
         image_height |-> (unit * size[2] * 4) \div 10]

\* image_indent = size[0] * 0.1
\* image_width = (size[0] - image_indent*2) / len(quest.images)
\* image_height = size[1]*0.4
\* in 1/unit pixel; unit is a multiple of 10 * n, so the divisions are exact.
image_slots(size, n, unit) ==
    LET image_indent == (unit * size[1]) \div 10
    IN  [image_indent |-> image_indent,
         image_width |-> (unit * size[1] - image_indent * 2) \div n,
         image_height |-> (unit * size[2] * 4) \div 10]

\* The final image: scaled into (size[0]*0.90, size[1]*0.45), blitted at
\* (size[0]*0.05 + image_x, size[1]*0.55 + image_y).  The possible results.
render_final_image(quest, size, loaded) ==
    LET unit == 20
        f == quest.final_image[1]
    IN  { << [file |-> f, size |-> r.size, unit |-> unit,
              at |-> <<size[1] + r.offset[1], 11 * size[2] + r.offset[2]>>] >>
          : r \in scale_image(loaded[f], <<18 * size[1], 9 * size[2]>>, unit, TRUE) }

\* The images of the record, one per slot.  The possible results.
render_images(quest, size, loaded) ==
    LET n == Len(quest.images)
        unit == 20 * n
        slots == image_slots(size, n, unit)
        blit(index, r) ==
            [file |-> quest.images[index + 1], size |-> r.size, unit |-> unit,
             at |-> <<slots.image_indent + index * slots.image_width + r.offset[1],
                      11 * n * size[2] + r.offset[2]>>]
        results(index) ==
            { blit(index, r) :
                r \in scale_image(loaded[quest.images[index + 1]],
                                  <<slots.image_width, slots.image_height>>, unit, TRUE) }
    IN  IF n = 0 THEN { <<>> }
        ELSE { d \in [1..n -> UNION {results(k - 1) : k \in 1..n}] :
                   \A k \in 1..n : d[k] \in results(k - 1) }

\* render_question for the session m, after `quest = self.current`; size is
\* screen.get_size(), loaded gives the size of each image file loaded.  The
\* possible results.
render_question(m, size, loaded) ==
    IF m.exc
    THEN { [exc |-> TRUE, texts |-> <<>>, options |-> <<>>, images |-> <<>>] }
    ELSE IF m.current = None
    THEN { [exc |-> FALSE,
            texts |-> << [text |-> <<"No more questions are left. Press 'ESC' to quit.">>,
                          color |-> <<0, 0, 0>>, at |-> <<100 * 40, 100 * 250>>,
                          unit |-> 100] >>,
            options |-> <<>>, images |-> <<>>] }
    ELSE LET quest == m.current[1]
             texts == render_texts(quest, m.show_final, size)
             opts == render_options(quest, m.show_final, size)
         IN  IF opts.exc
             THEN { [exc |-> TRUE, texts |-> texts, options |-> opts.lines,
                     images |-> <<>>] }
             ELSE { [exc |-> FALSE, texts |-> texts, options |-> opts.lines,
                     images |-> d] :
                    d \in IF draws_final(quest, m.show_final)
                          THEN render_final_image(quest, size, loaded)
                          ELSE render_images(quest, size, loaded) }

\* Window sizes tried: the initial 800 x 600 and two the user resized to.
ViewSizes == { <<800, 600>>, <<127, 301>>, <<1, 1>> }

\* Sizes of the image files tried; with the window 800 x 600 they include
\* the aspect ratio of the final image's viewport and of a slot for one,
\* two and three images.
ImageSizes == { <<1, 1>>, <<8, 3>>, <<4, 3>>, <<8, 9>>, <<1, 5>> }

\* The answers tried: none, the integers from -1 to one beyond the number
\* of options, and a value that is not a number.
Answers ==
    {None} \cup {Some(decimal(n)) : n \in (0 - 1)..(MaxOptions + 1)} \cup {Some(<<"b">>)}

\* What a question file of one record is made of: title?, the number of
\* options, answer?, the number of images, final_text?, final_image?.
RenderShapes ==
    [title : BOOLEAN, noptions : 0..MaxOptions, answer : Answers,
     nimages : 0..MaxImages, final_text : BOOLEAN, final_image : BOOLEAN]

\* The file of that shape.
RenderFile(shape) ==
    (IF shape.title THEN << <<"title", ":", "t">> >> ELSE <<>>)
    \o << <<"question", ":", " ", "x">> >>
    \o [k \in 1..shape.noptions |-> <<"option", ":", "y">>]
    \o (IF shape.answer = None THEN <<>>
        ELSE << <<"answer", ":", " ">> \o shape.answer[1] >>)
    \o [k \in 1..shape.nimages |-> <<"image", ":", "i">> \o decimal(k)]
    \o (IF shape.final_text THEN << <<"final_text", ":", "z">> >> ELSE <<>>)
    \o (IF shape.final_image THEN << <<"final_image", ":", "f">> >> ELSE <<>>)

\* The record read_questions yields for that file.
RenderQuest(shape) ==
    [Question EXCEPT
       !.title = IF shape.title THEN Some(<<"t">>) ELSE None,
       !.question = <<"x">>,
       !.options = [k \in 1..shape.noptions |-> <<"y">>],
       !.answer = shape.answer,
       !.images = [k \in 1..shape.nimages |-> path_join(base_path, <<"i">> \o decimal(k))],
       !.final_text = IF shape.final_text THEN Some(<<"z">>) ELSE None,
       !.final_image = IF shape.final_image THEN Some(path_join(base_path, <<"f">>))
                       ELSE None]

\* The generator suspended at the yield after the last line of that file.
RenderHeld(shape) ==
    [state |-> "yield82", line_number |-> Len(RenderFile(shape)) + 1,
     quest |-> RenderQuest(shape), err |-> None]

\* The session when run() calls render, for a file of one record: "shown"
\* (the record is current, a resize), "revealed" (after one act),
\* "advanced" (after two acts: exhausted).
RenderSession(shape, entry) ==
    [file |-> RenderFile(shape),
     pos |-> Len(RenderFile(shape)),
     gen |-> IF entry = "advanced" THEN gen_resume(RenderHeld(shape)) ELSE RenderHeld(shape),
     yielded |-> <<RenderQuest(shape)>>,
     current |-> IF entry = "advanced" THEN None ELSE Some(RenderQuest(shape)),
     show_final |-> entry = "revealed",
     nacts |-> CASE entry = "shown" -> 0 [] entry = "revealed" -> 1 [] OTHER -> 2]

\* The session at the first render of run(), for the empty file and for
\* files of a question line and at most one option line.
RenderStart ==
    { [file |-> f, pos |-> 0, gen |-> GenCreated, yielded |-> <<>>, current |-> None,
       show_final |-> FALSE, nacts |-> 0] :
      f \in { <<>>, << <<"question", ":", " ", "x">> >>,
              << <<"question", ":", " ", "x">>, <<"option", ":", "y">> >> } }

\* render_question alone.
InitRender ==
    /\ \E s \in RenderStart \cup
                { RenderSession(shape, entry) :
                    shape \in RenderShapes, entry \in {"shown", "revealed", "advanced"} } :
         /\ file = s.file
         /\ pos = s.pos
         /\ gen = s.gen
         /\ yielded = s.yielded
         /\ _current = s.current
         /\ _show_final = s.show_final
         /\ nacts = s.nacts
    /\ pc = "render"
    /\ running = TRUE
    /\ batch = 0
    /\ last = "none"
    /\ scene \in [size : ViewSizes]
    /\ drawn = None

\* render(): render_question, then pygame.display.flip().
RenderQuestion ==
    /\ pc = "render"
    /\ LET m == Questionary_render(Session)
       IN  /\ _current' = m.current
           /\ gen' = m.gen
           /\ pos' = m.pos
           /\ yielded' = m.yielded
           /\ \E loaded \in [ (IF m.current = None THEN {}
                               ELSE FilesLoaded(m.current[1], m.show_final))
                              -> ImageSizes ] :
                \E d \in render_question(m, scene.size, loaded) :
                    drawn' = Some(d)
    /\ pc' = "rendered"
    /\ UNCHANGED <<file, running, _show_final, nacts, batch, last, scene>>

NextRender == RenderQuestion

SpecRender == InitRender /\ [][NextRender]_vars

-----------------------------------------------------------------------------
(* The claims about render_question, checked under SpecRender.  The record *)
(* drawn is the current one after the render; its answer is an integer     *)
(* when int() accepts it.                                                  *)

Highlight == <<225, 20, 30>>

HighlightedOptions == {k \in 1..Len(drawn[1].options) : drawn[1].options[k].color = Highlight}

\* C13: for a record whose answer is an integer, render_question completes
\* and draws one line per option; the line at 1-based position k has the
\* highlight colour if and only if the session is revealed and k equals the
\* answer, and the plain colour otherwise.  So nothing is highlighted before
\* reveal, at most one line is highlighted, and none when the answer is 0 or
\* outside 1..len(options).
C13_HighlightIffAnswer ==
    (pc = "rendered" /\ _current # None /\ int(_current[1].answer).ok) =>
        LET quest == _current[1]
            answer == int(quest.answer).value
        IN  /\ ~drawn[1].exc
            /\ Len(drawn[1].options) = Len(quest.options)
            /\ \A k \in 1..Len(quest.options) :
                   drawn[1].options[k].color =
                       IF _show_final /\ k = answer THEN Highlight ELSE <<0, 0, 0>>
            /\ Cardinality(HighlightedOptions) <= 1
            /\ ~_show_final => HighlightedOptions = {}
            /\ answer \notin 1..Len(quest.options) => HighlightedOptions = {}

\* Revealed, two options, answer 2: the second line is highlighted, the
\* first is not.
C13_Witness ==
    /\ pc = "rendered" /\ _show_final /\ _current # None
    /\ Len(_current[1].options) = 2
    /\ _current[1].answer = Some(<<"2">>)
    /\ ~drawn[1].exc
    /\ HighlightedOptions = {2}

\* The files of the images drawn, in the order drawn.
FilesDrawn == [k \in 1..Len(drawn[1].images) |-> drawn[1].images[k].file]

\* C17: render_question completes and, when the session is revealed and the
\* record has a final_image, draws exactly that image; in every other case
\* with a current record it draws exactly the record's images, one per
\* entry, in declaration order (none when there are none); when no question
\* is left it draws no image.  (Records whose answer is an integer.)
C17_ImageChoice ==
    (pc = "rendered" /\ (_current = None \/ int(_current[1].answer).ok)) =>
        /\ ~drawn[1].exc
        /\ FilesDrawn =
               IF _current = None THEN <<>>
               ELSE IF _show_final /\ _current[1].final_image # None
                    THEN <<_current[1].final_image[1]>>
                    ELSE _current[1].images

\* Revealed, a record with two images and a final image: only the final
\* image is drawn.
C17_Witness ==
    /\ pc = "rendered" /\ _show_final /\ _current # None
    /\ Len(_current[1].images) = 2
    /\ _current[1].final_image # None
    /\ ~drawn[1].exc
    /\ FilesDrawn = <<_current[1].final_image[1]>>

\* The rectangle of the k-th image drawn, in 1/unit pixel.
Left(k) == drawn[1].images[k].at[1]
Right(k) == drawn[1].images[k].at[1] + drawn[1].images[k].size[1]
Top(k) == drawn[1].images[k].at[2]
Bottom(k) == drawn[1].images[k].at[2] + drawn[1].images[k].size[2]

\* The record's images are drawn: a record is current, its answer is an
\* integer, and the final image is not the one to draw.
ImagesDrawn ==
    /\ pc = "rendered" /\ _current # None /\ int(_current[1].answer).ok
    /\ ~(_show_final /\ _current[1].final_image # None)
    /\ Len(_current[1].images) >= 1

\* C18: with n >= 1 images drawn in a window W x H, the rectangle of the
\* i-th image (0-based), as passed to pygame, lies inside its slot
\* [0.1 W + i s, 0.1 W + (i + 1) s] x [0.55 H, 0.95 H], s = 0.8 W / n; the
\* rectangles of different images do not overlap and every rectangle lies
\* inside the window.  (Compared after multiplying by 10 n, by 20.)
C18_ImagesInSlots ==
    ImagesDrawn =>
        LET n == Len(_current[1].images)
            W == scene.size[1]
            H == scene.size[2]
        IN  /\ Len(drawn[1].images) = n
            /\ \A k \in 1..n :
                 LET u == drawn[1].images[k].unit
                 IN  /\ Left(k) <= Right(k) /\ Top(k) <= Bottom(k)
                     /\ 10 * n * Left(k) >= n * u * W + (k - 1) * 8 * u * W
                     /\ 10 * n * Right(k) <= n * u * W + k * 8 * u * W
                     /\ 20 * Top(k) >= 11 * u * H
                     /\ 20 * Bottom(k) <= 19 * u * H
                     /\ Left(k) >= 0 /\ Top(k) >= 0
                     /\ Right(k) <= u * W /\ Bottom(k) <= u * H
            /\ \A j, k \in 1..n : j < k => Right(j) <= Left(k)

\* Window 800 x 600, two images: the first fills its slot's width (320
\* pixels, from x = 80), the second is narrower than its slot and centred
\* in it, with free space on both sides.
C18_Witness ==
    /\ ImagesDrawn
    /\ scene.size = <<800, 600>>
    /\ Len(drawn[1].images) = 2
    /\ Left(1) = 40 * 80 /\ Right(1) = 40 * 400
    /\ Left(2) > 40 * 400 /\ Right(2) < 40 * 720
    /\ Top(2) = 40 * 330 /\ Bottom(2) = 40 * 570

=============================================================================
